---- MODULE Spec2Model ----
(***************************************************************************)
(* NIGHT-RIDER: hybrid RSA/AES chat between one Client (Initiator) and one *)
(* Server (Responder) over a TCP byte stream.                              *)
(*                                                                         *)
(* The byte stream of each direction is a sequence of runs; a run is a     *)
(* contiguous range [lo, lo+n) of the bytes of one written object (blob).  *)
(* Cryptographic values are symbolic: a wrapped key names the key it wraps *)
(* and the public key it was wrapped under, a ciphertext names its key,    *)
(* its IV and its plaintext.  Lengths and the 4-byte length header are     *)
(* concrete.                                                               *)
(***************************************************************************)
EXTENDS Integers, Sequences, FiniteSets, TLC

(* ------------------------------ bounds -------------------------------- *)
\* bytes of a PEM-encoded public key (stands for the ~426 bytes of the text)
PemLen == 3
\* non-sentinel console lines the two send loops read in all
MaxMsgs == 2

(* ------------------------- program constants -------------------------- *)
AES_BLOCK_SIZE == 16
AESKeyLen == 32
WrappedKeyLen == 256
LenFieldSize == 4
RecvBufSize == 4096
OneShotBodySize == 128  \* bytes ReceiveEncryptedMessage reads after the IV

E == {"C", "S"}
\* socket handles: the Client's connected socket, the Server's accepted
\* socket and the Server's listening socket
Handles == {"C", "S", "L"}
Dirs == {"C2S", "S2C"}
Peer(e) == IF e = "C" THEN "S" ELSE "C"
Out(e) == IF e = "C" THEN "C2S" ELSE "S2C"
In(e) == Out(Peer(e))

ZeroKey == 0
\* the value GenerateAESKey draws: it is not the all-zero key, and one value
\* stands for any (nothing in the program depends on which key was drawn)
Keys == {1}

\* console lines: the empty line and a line of exactly one block
Line16 == [i \in 1..AES_BLOCK_SIZE |-> 1]
Msgs == {<<>>, Line16}
\* "/exit"
ExitCmd == <<47, 101, 120, 105, 116>>
\* what a decryption that passes the padding check on wrong input yields
GarbagePlain == <<255>>

Min(a, b) == IF a < b THEN a ELSE b

(* ------------------------------- blobs --------------------------------- *)
PemBlob(owner) == [t |-> "pem", k |-> owner, n |-> PemLen]
WrapBlob(key, pub) == [t |-> "wrap", k |-> <<key, pub>>, n |-> WrappedKeyLen]
IVBlob(id) == [t |-> "iv", k |-> id, n |-> AES_BLOCK_SIZE]
LenBlob(digits) == [t |-> "len", k |-> digits, n |-> LenFieldSize]
CTBlob(key, ivid, pt, len) == [t |-> "ct", k |-> <<key, ivid, pt>>, n |-> len]
RawBlob(id, len) == [t |-> "raw", k |-> id, n |-> len]

\* the whole of a blob as a buffer (the empty buffer for a blob of no bytes)
Whole(b) == IF b.n = 0 THEN <<>> ELSE <<[b |-> b, lo |-> 0, n |-> b.n]>>

RECURSIVE Size(_)
Size(buf) == IF buf = <<>> THEN 0 ELSE Head(buf).n + Size(Tail(buf))

RECURSIVE Take(_, _)
Take(buf, n) ==
    IF n = 0 \/ buf = <<>> THEN <<>>
    ELSE IF Head(buf).n <= n
         THEN <<Head(buf)>> \o Take(Tail(buf), n - Head(buf).n)
         ELSE <<[Head(buf) EXCEPT !.n = n]>>

RECURSIVE Drop(_, _)
Drop(buf, n) ==
    IF n = 0 \/ buf = <<>> THEN buf
    ELSE IF Head(buf).n <= n
         THEN Drop(Tail(buf), n - Head(buf).n)
         ELSE <<[Head(buf) EXCEPT !.lo = @ + n, !.n = @ - n]>> \o Tail(buf)

\* Byte counts that stand for every way of cutting a buffer: each boundary
\* between two runs, and one byte into each run
RECURSIVE CutPoints(_, _)
CutPoints(buf, base) ==
    IF buf = <<>> THEN {base}
    ELSE {base} \cup (IF Head(buf).n > 1 THEN {base + 1} ELSE {})
           \cup CutPoints(Tail(buf), base + Head(buf).n)

IsWhole(buf, kind) ==
    /\ Len(buf) = 1
    /\ buf[1].b.t = kind
    /\ buf[1].lo = 0
    /\ buf[1].n = buf[1].b.n

(* ------------------------------- state --------------------------------- *)
VARIABLES
    pcMain,         \* position of each endpoint's main thread
    pcRecv,         \* position of each endpoint's receive thread
    sock,           \* m_serverSock (Client) / m_clientSock (Server)
    stream,         \* bytes in flight, per direction
    shut,           \* no more bytes will arrive on the direction
    peerPublicKey,  \* CryptoHelper::peerPublicKey: "null" or the owner
    aesKey,         \* CryptoHelper::aesKey
    rsaRet,         \* what RSA_private_decrypt returned in DecryptAESKey (0: not called)
    keyBuf,         \* the string ReceiveData returned in the handshake
    iv, len4, cipher, \* locals of StartReceiveLoop
    finalRet,       \* what EVP_DecryptFinal_ex returned in the last AESDecrypt (-1: none)
    emitted,        \* plaintexts the receive loop printed
    outcome,        \* the message the receive loop printed when it stopped
    consumed,       \* non-sentinel lines the send loop read
    wrote,          \* blobs written to the socket, in order
    ivCtr,          \* IVs drawn so far by AESEncrypt
    rsaKeyPair,     \* CryptoHelper::rsaKeyPair: "none", "valid" or "unusable"
    cinEof,         \* std::cin has reached end-of-file
    closeCalls      \* closesocket calls made on each socket handle

vars == <<pcMain, pcRecv, sock, stream, shut, peerPublicKey, aesKey, rsaRet,
          keyBuf, iv, len4, cipher, finalRet, emitted, outcome, consumed,
          wrote, ivCtr, rsaKeyPair, cinEof, closeCalls>>

netVars == <<stream, shut, wrote>>
recvLocals == <<iv, len4, cipher, finalRet>>
chatLogs == <<emitted, outcome, consumed>>


(* --------------------------- NetworkHelper ----------------------------- *)
RECURSIVE Flat(_)
Flat(blobs) == IF blobs = <<>> THEN <<>> ELSE Whole(Head(blobs)) \o Flat(Tail(blobs))

Avail(e) == Size(stream[In(e)])

\* send() on the endpoint's socket succeeds
SendOK(e) == sock[e] = "OPEN" /\ ~shut[Out(e)]

\* SendAll: every byte of data is appended to the stream, or the send fails
SendAll(s, e, data) == IF SendOK(e) THEN [s EXCEPT ![Out(e)] = @ \o data] ELSE s

\* the stream after the endpoint's consecutive SendData calls on blobs
SendData(s, e, blobs) == SendAll(s, e, Flat(blobs))

Wrote(e, blobs) == IF SendOK(e) THEN [wrote EXCEPT ![e] = @ \o blobs] ELSE wrote

\* a receive that no longer returns once the send loop has ended
ExactReadyUntilExit(e, len) ==
    /\ pcMain[e] # "join"
    /\ (len <= 0 \/ sock[e] # "OPEN" \/ Avail(e) >= len \/ shut[In(e)])

\* ReceiveExact has an answer: no byte wanted, recv fails at once, all the
\* bytes are there, or the stream ended short
ExactReady(e, len) ==
    len <= 0 \/ sock[e] # "OPEN" \/ Avail(e) >= len \/ shut[In(e)]

\* ReceiveExact that takes a closed connection (recv returning 0) for success
ReceiveExactIgnoresClose(e, len) == len <= 0 \/ sock[e] = "OPEN"

\* ReceiveExact: true iff len bytes were received
ReceiveExact(e, len) == len <= 0 \/ (sock[e] = "OPEN" /\ Avail(e) >= len)

\* bytes ReceiveExact takes off the stream
ExactTaken(e, len) ==
    IF sock[e] = "OPEN" /\ len > 0 THEN Min(Avail(e), len) ELSE 0

\* ReceiveDataBinary that returns the bytes received so far when ReceiveExact fails
ReceiveDataBinaryPartial(e, size) ==
    IF sock[e] = "OPEN" THEN Take(stream[In(e)], size) ELSE <<>>

\* ReceiveDataBinary: the size bytes, or the empty vector when ReceiveExact fails
ReceiveDataBinary(e, size) ==
    IF ReceiveExact(e, size) THEN Take(stream[In(e)], size) ELSE <<>>

\* ReceiveData: one recv of at most 4096 bytes; the counts it may return
\* (0: the peer closed, -1: recv failed)
ReceiveDataCounts(e) ==
    IF sock[e] # "OPEN" THEN {-1}
    ELSE IF Avail(e) > 0
         THEN {n \in CutPoints(stream[In(e)], 0) : n >= 1 /\ n <= RecvBufSize}
    ELSE IF shut[In(e)] THEN {0, -1}
    ELSE {}

(* ---------------------------- CryptoHelper ----------------------------- *)
\* a PEM text that holds the private key of the pair
KeyPairBlob(owner) == [t |-> "privpem", k |-> owner, n |-> PemLen]

\* an export that serialises the whole key pair
GetKeyPairString(e) == KeyPairBlob(e)

\* the text PEM_write_bio_RSAPublicKey leaves when the pair holds no key
EmptyText(owner) == [t |-> "pem", k |-> owner, n |-> 0]

\* GetPublicKeyString: PEM_write_bio_RSAPublicKey of the endpoint's own pair
GetPublicKeyString(e) == IF rsaKeyPair[e] = "valid" THEN PemBlob(e) ELSE EmptyText(e)

\* a PEM parser that takes the beginning of a PEM block for a key
PemParsesPartial(buf) ==
    /\ buf # <<>>
    /\ buf[1].b.t = "pem"
    /\ buf[1].lo = 0

\* PEM_read_bio_RSAPublicKey: the text must start with one complete PEM block
\* (what follows the block is ignored)
PemParses(buf) ==
    /\ buf # <<>>
    /\ buf[1].b.t = "pem"
    /\ buf[1].lo = 0
    /\ buf[1].n = buf[1].b.n

\* LoadPeerPublicKey that returns without a key when the text does not parse
LoadPeerPublicKeyLenient(buf) == IF PemParses(buf) THEN buf[1].b.k ELSE "null"

\* LoadPeerPublicKey: the key loaded, or "throw"
LoadPeerPublicKey(buf) == IF PemParses(buf) THEN buf[1].b.k ELSE "throw"

\* a test of the peer key that never fails
EncryptNeverThrows(e) == FALSE

\* EncryptAESKeyWithPeer throws without a peer key
EncryptThrows(e) == peerPublicKey[e] = "null"

\* EncryptAESKeyWithPeer whose result is one byte short of the modulus size
EncryptAESKeyWithPeerShort(e) ==
    [WrapBlob(aesKey[e], peerPublicKey[e]) EXCEPT !.n = WrappedKeyLen - 1]

\* EncryptAESKeyWithPeer: aesKey wrapped under the peer's public key
EncryptAESKeyWithPeer(e) == WrapBlob(aesKey[e], peerPublicKey[e])

\* RSA_private_decrypt with OAEP under owner's private key
RSAPrivateDecrypt(buf, owner, old) ==
    IF /\ IsWhole(buf, "wrap")
       /\ buf[1].b.k[2] = owner
    THEN [ret |-> AESKeyLen, key |-> buf[1].b.k[1]]
    ELSE [ret |-> -1, key |-> old]

\* DecryptAESKey that draws a key of its own instead of unwrapping
DecryptAESKeyGenerates(buf, owner, old) == [ret |-> AESKeyLen, key |-> 2]

\* DecryptAESKey: writes aesKey, returns nothing
DecryptAESKey(buf, owner, old) == RSAPrivateDecrypt(buf, owner, old)

\* an IV kept from the first call
StoredIV(e) == <<e, 1>>

\* an IV drawn from generator state that the receive path advances too
RandIVShared(e) == <<e, ivCtr[e] + 1 + Len(emitted[e])>>

\* RAND_bytes(outIV): the IV drawn by this call of AESEncrypt
RandIV(e) == <<e, ivCtr[e] + 1>>

\* bytes of the padded ciphertext of a plaintext of n bytes
PadLen(n) == (n \div AES_BLOCK_SIZE + 1) * AES_BLOCK_SIZE

\* AESEncrypt: the fresh IV and the ciphertext
AESEncrypt(plaintext, key, ivid) ==
    [iv |-> IVBlob(ivid),
     ct |-> CTBlob(key, ivid, plaintext, PadLen(Len(plaintext)))]

\* EVP decryption that fails on the ciphertext of the empty plaintext
EVPDecryptFailsOnEmpty(c, v, key) ==
    IF IsWhole(c, "ct") /\ c[1].b.k[1] = key /\ c[1].b.k[3] # <<>>
                        /\ IsWhole(v, "iv") /\ v[1].b.k = c[1].b.k[2]
    THEN {[ret |-> 1, out |-> c[1].b.k[3]]}
    ELSE {[ret |-> 0, out |-> <<>>]}

\* EVP decryption: what EVP_DecryptFinal_ex may return, with the bytes decrypted
EVPDecrypt(c, v, key) ==
    IF IsWhole(c, "ct") /\ c[1].b.k[1] = key
    THEN IF IsWhole(v, "iv") /\ v[1].b.k = c[1].b.k[2]
         THEN {[ret |-> 1, out |-> c[1].b.k[3]]}
         ELSE IF Size(c) > AES_BLOCK_SIZE
              THEN {[ret |-> 1, out |-> GarbagePlain]}
              ELSE {[ret |-> 0, out |-> <<>>], [ret |-> 1, out |-> GarbagePlain]}
    ELSE IF Size(c) % AES_BLOCK_SIZE # 0 \/ Size(c) = 0
         THEN {[ret |-> 0, out |-> <<>>]}
         ELSE {[ret |-> 0, out |-> <<>>], [ret |-> 1, out |-> GarbagePlain]}

\* AESDecrypt with the test of EVP_DecryptFinal_ex's result inverted
AESDecryptInverted(r) == IF r.ret = 1 THEN <<>> ELSE r.out

\* AESDecrypt: the plaintext, the empty string when the final step fails
AESDecrypt(r) == IF r.ret # 1 THEN <<>> ELSE r.out

(* --------------------------- length header ----------------------------- *)
\* the 4 bytes of clen in host (little-endian) order, htonl left out
HtonlNoSwap(n) == <<n % 256, (n \div 256) % 256, (n \div 65536) % 256, (n \div 16777216) % 256>>

\* htonl(clen) as the 4 bytes in memory
Htonl(n) == <<(n \div 16777216) % 256, (n \div 65536) % 256, (n \div 256) % 256, n % 256>>

\* static_cast<int>(ntohl(nlen)) of the 4 bytes received
ClenAsInt(d) ==
    (IF d[1] >= 128 THEN d[1] - 256 ELSE d[1]) * 16777216
        + d[2] * 65536 + d[3] * 256 + d[4]

\* the 4 bytes when they are not the bytes of one length header
GarbageLen4 == {<<0, 0, 0, 0>>, <<0, 0, 0, 20>>, <<255, 0, 0, 0>>}

\* memcpy(&nlen, len4.data(), 4): the bytes of the length field read
Len4Bytes(buf) == IF IsWhole(buf, "len") THEN {buf[1].b.k} ELSE GarbageLen4


(* -------------------------------- Init --------------------------------- *)
\* Client(ip, port) generated its RSA pair and its AES key; Server(port)
\* generated its RSA pair and holds the all-zero AES key
Init ==
    /\ pcMain = [e \in E |-> IF e = "C" THEN "connect" ELSE "start"]
    /\ pcRecv = [e \in E |-> "idle"]
    /\ sock = [e \in E |-> "INVALID"]
    /\ stream = [d \in Dirs |-> <<>>]
    /\ shut = [d \in Dirs |-> FALSE]
    /\ peerPublicKey = [e \in E |-> "null"]
    /\ \E k \in Keys : aesKey = [e \in E |-> IF e = "C" THEN k ELSE ZeroKey]
    /\ rsaRet = 0
    /\ keyBuf = [e \in E |-> <<>>]
    /\ iv = [e \in E |-> <<>>]
    /\ len4 = [e \in E |-> <<>>]
    /\ cipher = [e \in E |-> <<>>]
    /\ finalRet = [e \in E |-> -1]
    /\ emitted = [e \in E |-> <<>>]
    /\ outcome = [e \in E |-> "none"]
    /\ consumed = [e \in E |-> <<>>]
    /\ wrote = [e \in E |-> <<>>]
    /\ ivCtr = [e \in E |-> 0]
    /\ rsaKeyPair = [e \in E |-> "valid"]
    /\ cinEof = [e \in E |-> FALSE]
    /\ closeCalls = [h \in Handles |-> 0]

(* ----------------------------- construction --------------------------- *)
\* GenerateRSAKeys: RSA_generate_key_ex may fail, and its result is not looked
\* at; the pair then holds no key
GenerateRSAKeys == {"valid", "unusable"}

\* Client::Client / Server::Server: GenerateRSAKeys, and GenerateAESKey on the
\* Client
Construct(e) ==
    /\ pcMain[e] = "new"
    /\ \E r \in GenerateRSAKeys : rsaKeyPair' = [rsaKeyPair EXCEPT ![e] = r]
    /\ IF e = "C"
       THEN \E k \in Keys : aesKey' = [aesKey EXCEPT ![e] = k]
       ELSE UNCHANGED aesKey
    /\ pcMain' = [pcMain EXCEPT ![e] = IF e = "C" THEN "connect" ELSE "start"]
    /\ UNCHANGED <<pcRecv, sock, netVars, peerPublicKey, rsaRet, keyBuf,
                   recvLocals, chatLogs, ivCtr, cinEof, closeCalls>>

(* ------------------------- process termination ------------------------- *)
\* an exception nobody catches: std::terminate ends the process, the
\* system closes its socket
Terminate(e, s) ==
    /\ pcMain' = [pcMain EXCEPT ![e] = "crashed"]
    /\ pcRecv' = [pcRecv EXCEPT ![e] = IF @ = "idle" THEN "idle" ELSE "crashed"]
    /\ sock' = [sock EXCEPT ![e] = "CLOSED"]
    /\ shut' = [shut EXCEPT ![Out(e)] = TRUE]
    /\ stream' = s

(* ------------------------------ handshake ------------------------------ *)
Listening == pcMain["S"] \in {"accept", "recvPub", "recvKey", "startChat", "send", "join"}

\* Client::Connect (runClient returns when it fails)
ClientConnect ==
    /\ UNCHANGED <<rsaKeyPair, cinEof, closeCalls>>
    /\ pcMain["C"] = "connect"
    /\ \/ /\ Listening
          /\ sock' = [sock EXCEPT !["C"] = "OPEN"]
          /\ pcMain' = [pcMain EXCEPT !["C"] = "exchange"]
       \/ /\ pcMain' = [pcMain EXCEPT !["C"] = "failed"]
          /\ UNCHANGED sock
    /\ UNCHANGED <<pcRecv, netVars, peerPublicKey, aesKey, rsaRet, keyBuf,
                   recvLocals, chatLogs, ivCtr>>

\* Client::ExchangeKeys
ClientExchangeKeys ==
    /\ UNCHANGED <<rsaKeyPair, cinEof, closeCalls>>
    /\ pcMain["C"] = "exchange"
    /\ \E n \in ReceiveDataCounts("C") :
         LET got == IF n > 0 THEN Take(stream[In("C")], n) ELSE <<>>
             rest == IF n > 0 THEN [stream EXCEPT ![In("C")] = Drop(@, n)] ELSE stream
             key == IF n >= 0 THEN LoadPeerPublicKey(got) ELSE "throw"
         IN  /\ keyBuf' = [keyBuf EXCEPT !["C"] = got]
             /\ IF key = "throw"
                THEN /\ Terminate("C", rest)
                     /\ UNCHANGED <<peerPublicKey, wrote>>
                ELSE /\ peerPublicKey' = [peerPublicKey EXCEPT !["C"] = key]
                     /\ stream' = SendData(rest, "C", <<GetPublicKeyString("C")>>)
                     /\ wrote' = Wrote("C", <<GetPublicKeyString("C")>>)
                     /\ pcMain' = [pcMain EXCEPT !["C"] = "sendKey"]
                     /\ UNCHANGED <<pcRecv, sock, shut>>
    /\ UNCHANGED <<aesKey, rsaRet, recvLocals, chatLogs, ivCtr>>

\* Client::SendAESKeyEncrypted
ClientSendAESKeyEncrypted ==
    /\ UNCHANGED <<rsaKeyPair, cinEof, closeCalls>>
    /\ pcMain["C"] = "sendKey"
    /\ IF EncryptThrows("C")
       THEN /\ Terminate("C", stream)
            /\ UNCHANGED wrote
       ELSE /\ stream' = SendData(stream, "C", <<EncryptAESKeyWithPeer("C")>>)
            /\ wrote' = Wrote("C", <<EncryptAESKeyWithPeer("C")>>)
            /\ pcMain' = [pcMain EXCEPT !["C"] = "startChat"]
            /\ UNCHANGED <<pcRecv, sock, shut>>
    /\ UNCHANGED <<peerPublicKey, aesKey, rsaRet, keyBuf, recvLocals, chatLogs,
                   ivCtr>>

\* Server::Start (runServer returns when it fails)
ServerStart ==
    /\ UNCHANGED <<rsaKeyPair, cinEof, closeCalls>>
    /\ pcMain["S"] = "start"
    /\ \E ok \in BOOLEAN :
         pcMain' = [pcMain EXCEPT !["S"] = IF ok THEN "accept" ELSE "failed"]
    /\ UNCHANGED <<pcRecv, sock, netVars, peerPublicKey, aesKey, rsaRet, keyBuf,
                   recvLocals, chatLogs, ivCtr>>

\* WaitForClient that accepts the client and sends nothing before its first read
ServerAcceptSilent ==
    /\ pcMain["S"] = "accept"
    /\ sock["C"] = "OPEN"
    /\ sock' = [sock EXCEPT !["S"] = "OPEN"]
    /\ pcMain' = [pcMain EXCEPT !["S"] = "recvPub"]
    /\ UNCHANGED <<pcRecv, netVars, peerPublicKey, aesKey, rsaRet, keyBuf,
                   recvLocals, chatLogs, ivCtr, rsaKeyPair, cinEof,
                   closeCalls>>

\* Server::WaitForClient, to its first blocking read: accept the client and
\* send the public key; return when accept fails
ServerAccept ==
    /\ UNCHANGED <<rsaKeyPair, cinEof, closeCalls>>
    /\ pcMain["S"] = "accept"
    /\ \/ /\ sock["C"] = "OPEN"
          /\ sock' = [sock EXCEPT !["S"] = "OPEN"]
          /\ IF shut[Out("S")]
             THEN UNCHANGED <<stream, wrote>>
             ELSE /\ stream' = [stream EXCEPT ![Out("S")] = @ \o Whole(GetPublicKeyString("S"))]
                  /\ wrote' = [wrote EXCEPT !["S"] = @ \o <<GetPublicKeyString("S")>>]
          /\ pcMain' = [pcMain EXCEPT !["S"] = "recvPub"]
       \/ /\ sock' = [sock EXCEPT !["S"] = "INVALID"]
          /\ pcMain' = [pcMain EXCEPT !["S"] = "startChat"]
          /\ UNCHANGED <<stream, wrote>>
    /\ UNCHANGED <<pcRecv, shut, peerPublicKey, aesKey, rsaRet, keyBuf,
                   recvLocals, chatLogs, ivCtr>>

\* Server::WaitForClient: receive and load the client's public key
ServerRecvPub ==
    /\ UNCHANGED <<rsaKeyPair, cinEof, closeCalls>>
    /\ pcMain["S"] = "recvPub"
    /\ \E n \in ReceiveDataCounts("S") :
         LET got == IF n > 0 THEN Take(stream[In("S")], n) ELSE <<>>
             rest == IF n > 0 THEN [stream EXCEPT ![In("S")] = Drop(@, n)] ELSE stream
             key == IF n >= 0 THEN LoadPeerPublicKey(got) ELSE "throw"
         IN  /\ keyBuf' = [keyBuf EXCEPT !["S"] = got]
             /\ IF key = "throw"
                THEN /\ Terminate("S", rest)
                     /\ UNCHANGED peerPublicKey
                ELSE /\ peerPublicKey' = [peerPublicKey EXCEPT !["S"] = key]
                     /\ stream' = rest
                     /\ pcMain' = [pcMain EXCEPT !["S"] = "recvKey"]
                     /\ UNCHANGED <<pcRecv, sock, shut>>
    /\ UNCHANGED <<wrote, aesKey, rsaRet, recvLocals, chatLogs, ivCtr>>

\* Server::WaitForClient: receive the 256-byte wrapped key and unwrap it
ServerRecvKey ==
    /\ UNCHANGED <<rsaKeyPair, cinEof, closeCalls>>
    /\ pcMain["S"] = "recvKey"
    /\ ExactReady("S", WrappedKeyLen)
    /\ LET encryptedAESKey == ReceiveDataBinary("S", WrappedKeyLen)
           r == DecryptAESKey(encryptedAESKey, "S", aesKey["S"])
       IN  /\ stream' = [stream EXCEPT ![In("S")] = Drop(@, ExactTaken("S", WrappedKeyLen))]
           /\ aesKey' = [aesKey EXCEPT !["S"] = r.key]
           /\ rsaRet' = r.ret
    /\ pcMain' = [pcMain EXCEPT !["S"] = "startChat"]
    /\ UNCHANGED <<pcRecv, sock, shut, wrote, peerPublicKey, keyBuf, recvLocals,
                   chatLogs, ivCtr>>


(* ------------------------------ messaging ------------------------------ *)
\* StartChatLoop that draws a new session key before the loops start
StartChatLoopRekey(e) ==
    /\ UNCHANGED <<rsaKeyPair, cinEof, closeCalls>>
    /\ pcMain[e] = "startChat"
    /\ pcMain' = [pcMain EXCEPT ![e] = "send"]
    /\ pcRecv' = [pcRecv EXCEPT ![e] = "rIV"]
    /\ \E k \in Keys : aesKey' = [aesKey EXCEPT ![e] = k]
    /\ UNCHANGED <<sock, netVars, peerPublicKey, rsaRet, keyBuf,
                   recvLocals, chatLogs, ivCtr>>

\* StartChatLoop: the receive thread starts, the caller runs the send loop
StartChatLoop(e) ==
    /\ UNCHANGED <<rsaKeyPair, cinEof, closeCalls>>
    /\ pcMain[e] = "startChat"
    /\ pcMain' = [pcMain EXCEPT ![e] = "send"]
    /\ pcRecv' = [pcRecv EXCEPT ![e] = "rIV"]
    /\ UNCHANGED <<sock, netVars, peerPublicKey, aesKey, rsaRet, keyBuf,
                   recvLocals, chatLogs, ivCtr>>

\* SendEncryptedMessage that sends nothing for an empty line
SendEncryptedMessageSkipsEmpty(message, key, ivid) ==
    LET c == AESEncrypt(message, key, ivid)
    IN  IF message = <<>> THEN <<>> ELSE <<c.iv, LenBlob(Htonl(c.ct.n)), c.ct>>

\* SendEncryptedMessage: the three segments of the frame of one message
SendEncryptedMessage(message, key, ivid) ==
    LET c == AESEncrypt(message, key, ivid)
    IN  <<c.iv, LenBlob(Htonl(c.ct.n)), c.ct>>

\* a test of the console line that never takes it for the sentinel
IsExitNever(msg) == FALSE

\* msg == "/exit"
IsExit(msg) == msg = ExitCmd

\* std::getline(std::cin, msg): the lines msg may hold after the call.  At
\* end-of-file the call extracts nothing and msg keeps the value of the pass
\* before.
Getline(e) ==
    IF cinEof[e] THEN {consumed[e][Len(consumed[e])]} ELSE Msgs \cup {ExitCmd}

\* SendEncryptedMessageLoop: one pass of the loop on one console line; the
\* line read may be the last of the input (end-of-file follows it)
SendEncryptedMessageLoop(e) ==
    /\ pcMain[e] = "send"
    /\ \E msg \in Getline(e) :
         IF IsExit(msg)
         THEN /\ pcMain' = [pcMain EXCEPT ![e] = "join"]
              /\ UNCHANGED <<stream, wrote, consumed, ivCtr, cinEof>>
         ELSE /\ Len(consumed["C"]) + Len(consumed["S"]) < MaxMsgs
              /\ LET frame == SendEncryptedMessage(msg, aesKey[e], RandIV(e))
                 IN  /\ stream' = SendData(stream, e, frame)
                     /\ wrote' = Wrote(e, frame)
              /\ ivCtr' = [ivCtr EXCEPT ![e] = @ + 1]
              /\ consumed' = [consumed EXCEPT ![e] = Append(@, msg)]
              /\ \E eof \in BOOLEAN :
                    /\ cinEof[e] => eof
                    /\ cinEof' = [cinEof EXCEPT ![e] = eof]
              /\ UNCHANGED pcMain
    /\ UNCHANGED <<pcRecv, sock, shut, peerPublicKey, aesKey, rsaRet, keyBuf,
                   recvLocals, emitted, outcome, rsaKeyPair, closeCalls>>

\* a join that does not wait for the receive thread
JoinSkipped(e) == TRUE

\* recvThread.join() returns: the receive thread has finished
Joined(e) == pcRecv[e] = "rDone"

\* ~Client / ~Server: m_net.close on the connection socket unless it is
\* INVALID_SOCKET
DestructorCloses(e) == IF sock[e] # "INVALID" THEN 1 ELSE 0

\* ~NetworkHelper: closesocket(m_serverSocket) unless it is INVALID_SOCKET;
\* m_serverSocket is the Client's connected socket (Connect copied it to
\* m_serverSock) and the Server's listening socket
NetworkHelperCloses(e) == IF e = "C" THEN (IF sock[e] # "INVALID" THEN 1 ELSE 0) ELSE 1

\* StartChatLoop joins the receive thread and returns; runClient/runServer
\* return, the destructor closes the socket and then the destructor of m_net
\* runs
JoinAndClose(e) ==
    /\ UNCHANGED <<rsaKeyPair, cinEof>>
    /\ pcMain[e] = "join"
    /\ Joined(e)
    /\ pcMain' = [pcMain EXCEPT ![e] = "done"]
    /\ sock' = [sock EXCEPT ![e] = IF @ = "OPEN" THEN "CLOSED" ELSE @]
    /\ shut' = [shut EXCEPT ![Out(e)] = TRUE]
    /\ closeCalls' =
          IF e = "C"
          THEN [closeCalls EXCEPT !["C"] = @ + DestructorCloses(e) + NetworkHelperCloses(e)]
          ELSE [closeCalls EXCEPT !["S"] = @ + DestructorCloses(e),
                                  !["L"] = @ + NetworkHelperCloses(e)]
    /\ UNCHANGED <<pcRecv, stream, wrote, peerPublicKey, aesKey, rsaRet, keyBuf,
                   recvLocals, chatLogs, ivCtr>>

\* the receive loop stops with the message it prints
RecvStop(e, msg) ==
    /\ pcRecv' = [pcRecv EXCEPT ![e] = "rDone"]
    /\ outcome' = [outcome EXCEPT ![e] = msg]

\* StartReceiveLoop: read the 16-byte IV
RecvIV(e) ==
    /\ UNCHANGED <<rsaKeyPair, cinEof, closeCalls>>
    /\ pcRecv[e] = "rIV"
    /\ ExactReady(e, AES_BLOCK_SIZE)
    /\ iv' = [iv EXCEPT ![e] = ReceiveDataBinary(e, AES_BLOCK_SIZE)]
    /\ IF iv'[e] = <<>>
       THEN RecvStop(e, "closed")
       ELSE /\ pcRecv' = [pcRecv EXCEPT ![e] = "rLen"]
            /\ UNCHANGED outcome
    /\ stream' = [stream EXCEPT ![In(e)] = Drop(@, ExactTaken(e, AES_BLOCK_SIZE))]
    /\ UNCHANGED <<pcMain, sock, shut, wrote, peerPublicKey, aesKey, rsaRet,
                   keyBuf, len4, cipher, finalRet, emitted, consumed, ivCtr>>

\* StartReceiveLoop: read the 4-byte length
RecvLen(e) ==
    /\ UNCHANGED <<rsaKeyPair, cinEof, closeCalls>>
    /\ pcRecv[e] = "rLen"
    /\ ExactReady(e, LenFieldSize)
    /\ LET buf == ReceiveDataBinary(e, LenFieldSize)
       IN  IF Size(buf) # LenFieldSize
           THEN /\ RecvStop(e, "lenError")
                /\ len4' = [len4 EXCEPT ![e] = <<>>]
           ELSE /\ \E d \in Len4Bytes(buf) : len4' = [len4 EXCEPT ![e] = d]
                /\ pcRecv' = [pcRecv EXCEPT ![e] = "rCipher"]
                /\ UNCHANGED outcome
    /\ stream' = [stream EXCEPT ![In(e)] = Drop(@, ExactTaken(e, LenFieldSize))]
    /\ UNCHANGED <<pcMain, sock, shut, wrote, peerPublicKey, aesKey, rsaRet,
                   keyBuf, iv, cipher, finalRet, emitted, consumed, ivCtr>>

\* StartReceiveLoop: read the clen bytes of ciphertext (a negative size makes
\* the vector's construction throw), decrypt them and print what AESDecrypt
\* returned
RecvCipher(e) ==
    /\ UNCHANGED <<rsaKeyPair, cinEof, closeCalls>>
    /\ pcRecv[e] = "rCipher"
    /\ LET clen == ClenAsInt(len4[e])
       IN  IF clen < 0
           THEN /\ Terminate(e, stream)
                /\ UNCHANGED <<cipher, outcome, finalRet, emitted>>
           ELSE /\ ExactReady(e, clen)
                /\ cipher' = [cipher EXCEPT ![e] = ReceiveDataBinary(e, clen)]
                /\ IF cipher'[e] = <<>>
                   THEN /\ RecvStop(e, "dataError")
                        /\ UNCHANGED <<finalRet, emitted>>
                   ELSE /\ \E r \in EVPDecrypt(cipher'[e], iv[e], aesKey[e]) :
                             /\ finalRet' = [finalRet EXCEPT ![e] = r.ret]
                             /\ emitted' = [emitted EXCEPT ![e] = Append(@, AESDecrypt(r))]
                        /\ pcRecv' = [pcRecv EXCEPT ![e] = "rIV"]
                        /\ UNCHANGED outcome
                /\ stream' = [stream EXCEPT ![In(e)] = Drop(@, ExactTaken(e, clen))]
                /\ UNCHANGED <<pcMain, sock, shut>>
    /\ UNCHANGED <<wrote, peerPublicKey, aesKey, rsaRet, keyBuf, iv, len4,
                   consumed, ivCtr>>

(* ------------------------------- network ------------------------------- *)
\* the connection is lost: one direction delivers only a prefix of what was
\* written, and nothing more arrives on either
ConnectionLost ==
    /\ UNCHANGED <<rsaKeyPair, cinEof, closeCalls>>
    /\ sock["C"] = "OPEN"
    /\ \E d \in Dirs : ~shut[d]
    /\ \E d \in Dirs : \E n \in CutPoints(stream[d], 0) :
         stream' = [stream EXCEPT ![d] = Take(@, n)]
    /\ shut' = [d \in Dirs |-> TRUE]
    /\ UNCHANGED <<pcMain, pcRecv, sock, wrote, peerPublicKey, aesKey, rsaRet,
                   keyBuf, recvLocals, chatLogs, ivCtr>>

Next ==
    \/ ClientConnect
    \/ ClientExchangeKeys
    \/ ClientSendAESKeyEncrypted
    \/ ServerStart
    \/ ServerAccept
    \/ ServerRecvPub
    \/ ServerRecvKey
    \/ \E e \in E : StartChatLoop(e)
    \/ \E e \in E : SendEncryptedMessageLoop(e)
    \/ \E e \in E : JoinAndClose(e)
    \/ \E e \in E : RecvIV(e)
    \/ \E e \in E : RecvLen(e)
    \/ \E e \in E : RecvCipher(e)
    \/ ConnectionLost

Spec == Init /\ [][Next]_vars

\* Every thread of the two programs that can take a step eventually takes
\* one.  The operator at the console (SendEncryptedMessageLoop blocks in
\* getline) and the network (ConnectionLost) owe nothing.
Fairness ==
    /\ WF_vars(ClientConnect)
    /\ WF_vars(ClientExchangeKeys)
    /\ WF_vars(ClientSendAESKeyEncrypted)
    /\ WF_vars(ServerStart)
    /\ WF_vars(ServerAccept)
    /\ WF_vars(ServerRecvPub)
    /\ WF_vars(ServerRecvKey)
    /\ \A e \in E :
          /\ WF_vars(StartChatLoop(e))
          /\ WF_vars(JoinAndClose(e))
          /\ WF_vars(RecvIV(e))
          /\ WF_vars(RecvLen(e))
          /\ WF_vars(RecvCipher(e))

SpecLive == Spec /\ Fairness

(* ------- the handshake, up to the start of the two receive threads ------ *)
NextHandshake ==
    \/ ClientConnect
    \/ ClientExchangeKeys
    \/ ClientSendAESKeyEncrypted
    \/ ServerStart
    \/ ServerAccept
    \/ ServerRecvPub
    \/ ServerRecvKey
    \/ \E e \in E : StartChatLoop(e)
    \/ \E e \in E : RecvIV(e)
    \/ ConnectionLost

\* the threads that run the handshake take the steps they can take
FairnessHandshake ==
    /\ WF_vars(ClientConnect)
    /\ WF_vars(ClientExchangeKeys)
    /\ WF_vars(ClientSendAESKeyEncrypted)
    /\ WF_vars(ServerStart)
    /\ WF_vars(ServerAccept)
    /\ WF_vars(ServerRecvPub)
    /\ WF_vars(ServerRecvKey)

SpecHandshake == Init /\ [][NextHandshake]_vars /\ FairnessHandshake

(* ----------------------- from the constructors on ----------------------- *)
InitKeyGen ==
    /\ pcMain = [e \in E |-> "new"]
    /\ pcRecv = [e \in E |-> "idle"]
    /\ sock = [e \in E |-> "INVALID"]
    /\ stream = [d \in Dirs |-> <<>>]
    /\ shut = [d \in Dirs |-> FALSE]
    /\ peerPublicKey = [e \in E |-> "null"]
    /\ aesKey = [e \in E |-> ZeroKey]
    /\ rsaRet = 0
    /\ keyBuf = [e \in E |-> <<>>]
    /\ iv = [e \in E |-> <<>>]
    /\ len4 = [e \in E |-> <<>>]
    /\ cipher = [e \in E |-> <<>>]
    /\ finalRet = [e \in E |-> -1]
    /\ emitted = [e \in E |-> <<>>]
    /\ outcome = [e \in E |-> "none"]
    /\ consumed = [e \in E |-> <<>>]
    /\ wrote = [e \in E |-> <<>>]
    /\ ivCtr = [e \in E |-> 0]
    /\ rsaKeyPair = [e \in E |-> "none"]
    /\ cinEof = [e \in E |-> FALSE]
    /\ closeCalls = [h \in Handles |-> 0]

NextKeyGen ==
    \/ \E e \in E : Construct(e)
    \/ Next

SpecKeyGen == InitKeyGen /\ [][NextKeyGen]_vars

(* ------------- SendAESKeyEncrypted with or without a peer key ----------- *)
\* the Client is connected and about to call SendAESKeyEncrypted, after
\* ExchangeKeys or (loaded = FALSE) without it; the Server has sent its key
InitWrap ==
    \E k \in Keys : \E loaded \in BOOLEAN :
        /\ pcMain = [e \in E |-> IF e = "C" THEN "sendKey" ELSE "recvPub"]
        /\ pcRecv = [e \in E |-> "idle"]
        /\ sock = [e \in E |-> "OPEN"]
        /\ stream = [d \in Dirs |-> IF d = "C2S"
                                     THEN (IF loaded THEN Whole(PemBlob("C")) ELSE <<>>)
                                     ELSE (IF loaded THEN <<>> ELSE Whole(PemBlob("S")))]
        /\ shut = [d \in Dirs |-> FALSE]
        /\ peerPublicKey = [e \in E |-> IF e = "C" /\ loaded THEN "S" ELSE "null"]
        /\ aesKey = [e \in E |-> IF e = "C" THEN k ELSE ZeroKey]
        /\ rsaRet = 0
        /\ keyBuf = [e \in E |-> IF e = "C" /\ loaded THEN Whole(PemBlob("S")) ELSE <<>>]
        /\ iv = [e \in E |-> <<>>]
        /\ len4 = [e \in E |-> <<>>]
        /\ cipher = [e \in E |-> <<>>]
        /\ finalRet = [e \in E |-> -1]
        /\ emitted = [e \in E |-> <<>>]
        /\ outcome = [e \in E |-> "none"]
        /\ consumed = [e \in E |-> <<>>]
        /\ wrote = [e \in E |-> IF e = "S" THEN <<PemBlob("S")>>
                                  ELSE IF loaded THEN <<PemBlob("C")>> ELSE <<>>]
        /\ ivCtr = [e \in E |-> 0]
        /\ rsaKeyPair = [e \in E |-> "valid"]
        /\ cinEof = [e \in E |-> FALSE]
        /\ closeCalls = [h \in Handles |-> 0]

NextWrap ==
    \/ ClientSendAESKeyEncrypted
    \/ ServerRecvPub
    \/ ServerRecvKey
    \/ \E e \in E : StartChatLoop(e)
    \/ \E e \in E : RecvIV(e)
    \/ ConnectionLost

SpecWrap == InitWrap /\ [][NextWrap]_vars


(* ------------- the receive loop against frames of any content ---------- *)
\* ciphertext lengths of frames whose content is not a ciphertext of this key
RawLens == {0, 1, 16, 10000}

\* the three segments of a frame with the given IV and ciphertext
FrameOf(ivid, body) == <<IVBlob(ivid), LenBlob(Htonl(body.n)), body>>

\* the ciphertexts a peer may put in its i-th frame
Bodies(k, i) ==
    {RawBlob(i, n) : n \in RawLens}
        \cup {CTBlob(k, <<"C", i>>, m, PadLen(Len(m))) : m \in Msgs}

\* both endpoints are in the messaging stage under key k, both send loops have
\* ended, and the Client side has written one or two frames
InitFrame ==
    \E k \in Keys : \E b1 \in Bodies(k, 1) : \E more \in BOOLEAN : \E b2 \in Bodies(k, 2) :
        LET frames == IF more THEN FrameOf(<<"C", 1>>, b1) \o FrameOf(<<"C", 2>>, b2)
                      ELSE FrameOf(<<"C", 1>>, b1)
        IN  /\ pcMain = [e \in E |-> "join"]
            /\ pcRecv = [e \in E |-> "rIV"]
            /\ sock = [e \in E |-> "OPEN"]
            /\ stream = [d \in Dirs |-> IF d = "C2S" THEN Flat(frames) ELSE <<>>]
            /\ shut = [d \in Dirs |-> FALSE]
            /\ peerPublicKey = [e \in E |-> Peer(e)]
            /\ aesKey = [e \in E |-> k]
            /\ rsaRet = AESKeyLen
            /\ keyBuf = [e \in E |-> Whole(PemBlob(Peer(e)))]
            /\ iv = [e \in E |-> <<>>]
            /\ len4 = [e \in E |-> <<>>]
            /\ cipher = [e \in E |-> <<>>]
            /\ finalRet = [e \in E |-> -1]
            /\ emitted = [e \in E |-> <<>>]
            /\ outcome = [e \in E |-> "none"]
            /\ consumed = [e \in E |-> <<>>]
            /\ wrote = [e \in E |-> IF e = "C"
                                    THEN <<PemBlob("C"), WrapBlob(k, "S")>> \o frames
                                    ELSE <<PemBlob("S")>>]
            /\ ivCtr = [e \in E |-> IF e = "C" THEN (IF more THEN 2 ELSE 1) ELSE 0]
            /\ rsaKeyPair = [e \in E |-> "valid"]
            /\ cinEof = [e \in E |-> FALSE]
            /\ closeCalls = [h \in Handles |-> 0]

NextFrame ==
    \/ \E e \in E : RecvIV(e)
    \/ \E e \in E : RecvLen(e)
    \/ \E e \in E : RecvCipher(e)
    \/ \E e \in E : JoinAndClose(e)
    \/ ConnectionLost

SpecFrame == InitFrame /\ [][NextFrame]_vars

(* ======================= properties of the handshake ==================== *)

\* WaitForClient ran to its end: the wrapped key was read and DecryptAESKey called
WaitForClientCompleted ==
    /\ pcMain["S"] \in {"startChat", "send", "join", "done"}
    /\ rsaRet # 0

SendAESKeyEncryptedCompleted == pcMain["C"] \in {"startChat", "send", "join", "done"}

ConnectionUp == \A d \in Dirs : ~shut[d]

\* C1: when WaitForClient, ExchangeKeys and SendAESKeyEncrypted have all run
\* to completion on a connection that is up, the Server's aesKey equals the
\* key the Client generated and wrapped.
C1_SameSessionKey ==
    (WaitForClientCompleted /\ SendAESKeyEncryptedCompleted /\ ConnectionUp)
        => aesKey["S"] = aesKey["C"]

\* a step of the Responder's handshake failed
AcceptFailed == pcMain["S"] \in {"startChat", "send", "join"} /\ sock["S"] = "INVALID"
UnwrapFailed == rsaRet = -1

\* C2: after a failed Responder handshake step (accept, the 256-byte read,
\* the unwrap) the Server never starts the send and receive paths.
C2_NoChatAfterFailedHandshake ==
    (AcceptFailed \/ UnwrapFailed)
        => (pcRecv["S"] = "idle" /\ pcMain["S"] \notin {"send", "join"})

\* C3: DecryptAESKey never returns normally after a failed RSA decryption,
\* leaving aesKey at something else than the unwrapped secret.
C3_UnwrapFailureSurfaced ==
    (rsaRet # 0 /\ pcMain["S"] # "crashed")
        => (rsaRet = AESKeyLen /\ aesKey["S"] # ZeroKey)

\* C4: the read of the peer's public key returns exactly the bytes of the
\* encoded key, however the stream delivers the writes.
C4_PublicKeyReadExact ==
    /\ pcMain["S"] = "recvKey" => keyBuf["S"] = Whole(PemBlob("C"))
    /\ pcMain["C"] = "sendKey" => keyBuf["C"] = Whole(PemBlob("S"))

(* ======================== properties of messaging ======================= *)
IsPrefix(a, b) == Len(a) <= Len(b) /\ SubSeq(b, 1, Len(a)) = a

\* the Responder unwrapped the session key the Initiator sent
HandshakeOK == rsaRet = AESKeyLen

HandshakeWrites(e) == IF e = "C" THEN <<"pem", "wrap">> ELSE <<"pem">>

\* the value of 4 bytes read as a big-endian unsigned integer
BigEndianValue(d) == d[1] * 16777216 + d[2] * 65536 + d[3] * 256 + d[4]

\* the i-th write of an endpoint is the segment of a frame it should be
FrameSegmentOK(w, h, i) ==
    LET j == (i - h - 1) % 3
    IN  CASE j = 0 -> w[i].t = "iv" /\ w[i].n = 16 /\ i + 2 <= Len(w)
          [] j = 1 -> /\ w[i].t = "len"
                      /\ Len(w[i].k) = 4
                      /\ i + 1 <= Len(w)
                      /\ BigEndianValue(w[i].k) = w[i + 1].n
          [] j = 2 -> w[i].t = "ct"

\* C6: what an endpoint writes after its handshake writes is a sequence of
\* frames: a 16-byte IV, the 4-byte big-endian count of ciphertext bytes, the
\* ciphertext; nothing else.
C6_FrameLayout ==
    \A e \in E :
        LET w == wrote[e]
            h == Len(HandshakeWrites(e))
        IN  \A i \in 1..Len(w) :
                IF i <= h THEN w[i].t = HandshakeWrites(e)[i]
                ELSE FrameSegmentOK(w, h, i)

\* an endpoint wrote the frames of a 16-byte and of a 32-byte ciphertext
C6_Witness ==
    \E e \in E :
        /\ Len(wrote[e]) = Len(HandshakeWrites(e)) + 6
        /\ wrote[e][Len(wrote[e])].n = 32
        /\ wrote[e][Len(wrote[e]) - 3].n = 16

\* C8: when the stream ends before a full IV has arrived, the receive loop
\* stops and prints the "closed by peer" message.
C8_CloseBeforeIV ==
    [][\A e \in E :
          (/\ pcRecv[e] = "rIV"
           /\ sock[e] = "OPEN"
           /\ shut[In(e)]
           /\ Avail(e) < AES_BLOCK_SIZE
           /\ pcRecv'[e] # "rIV")
              => (/\ pcRecv'[e] = "rDone"
                  /\ outcome'[e] = "closed"
                  /\ emitted'[e] = emitted[e])]_vars

\* a receive loop stopped on "closed" after it had delivered a frame
C8_Witness ==
    \E e \in E :
        /\ pcRecv[e] = "rDone"
        /\ outcome[e] = "closed"
        /\ sock[e] = "OPEN"
        /\ Len(emitted[e]) >= 1

\* C9: when the stream ends after the IV was read and before the length or
\* the declared ciphertext has arrived, the receive loop stops with an error
\* message that is not the "closed by peer" message.
C9_TruncatedFrame ==
    [][\A e \in E :
          (/\ \/ pcRecv[e] = "rLen" /\ Avail(e) < LenFieldSize
              \/ pcRecv[e] = "rCipher" /\ Avail(e) < ClenAsInt(len4[e])
           /\ shut[In(e)]
           /\ pcRecv'[e] # pcRecv[e])
              => (/\ pcRecv'[e] = "rDone"
                  /\ outcome'[e] \in {"lenError", "dataError"}
                  /\ emitted'[e] = emitted[e])]_vars

\* a receive loop stopped in the middle of the ciphertext of a frame
C9_Witness ==
    \E e \in E :
        /\ pcRecv[e] = "rDone"
        /\ outcome[e] = "dataError"
        /\ len4[e] = Htonl(32)
        /\ HandshakeOK

\* C10: when AESDecrypt's final step fails on a received frame, the receive
\* path stops and reports the failure; it prints no plaintext for the frame.
C10_StopOnDecryptFailure ==
    [][\A e \in E :
          (/\ pcRecv[e] = "rCipher"
           /\ pcRecv'[e] \notin {"rCipher", "crashed"}
           /\ cipher'[e] # <<>>
           /\ finalRet'[e] = 0)
              => (/\ pcRecv'[e] = "rDone"
                  /\ outcome'[e] \notin {"none", "closed"}
                  /\ emitted'[e] = emitted[e])]_vars

(* =================== properties of the frame codec ===================== *)
\* frames the Server's receive loop has accepted
Accepted == Len(emitted["S"])

\* C7: a frame written as [IV][4-byte big-endian length][c] is accepted by the
\* receive loop with exactly that IV and that c, for c of any length: while
\* the connection is up the loop does not stop, and after each frame its iv
\* and cipher are the IV and the ciphertext written.
C7_FrameRoundTrip ==
    /\ ConnectionUp => pcRecv["S"] # "rDone"
    /\ (pcRecv["S"] = "rIV" /\ Accepted >= 1)
          => /\ iv["S"] = Whole(wrote["C"][3 * Accepted])
             /\ cipher["S"] = Whole(wrote["C"][3 * Accepted + 2])

(* ===================== properties of the chat session =================== *)
\* the receive thread of an endpoint is running
Receiving(e) == pcRecv[e] \in {"rIV", "rLen", "rCipher"}

\* C11: once an endpoint's operator has entered /exit, its StartChatLoop
\* eventually returns and its connection is closed, whatever the peer does.
C11_ExitEndsSession ==
    \A e \in E : (pcMain[e] = "join") ~> (pcMain[e] = "done" /\ sock[e] # "OPEN")

\* C12: once the receive path of an endpoint has terminated, its send path
\* writes nothing more to the connection, and it stops without a further
\* console line.
C12_ReceiveEndStopsSend ==
    /\ [][\A e \in E : pcRecv[e] = "rDone" => wrote'[e] = wrote[e]]_vars
    /\ \A e \in E : (pcRecv[e] = "rDone") ~> (pcMain[e] # "send")

\* C13: an endpoint's socket is not closed by the endpoint, and
\* StartChatLoop has not returned, while its receive thread is running.
C13_NoTeardownWhileReceiving ==
    \A e \in E : Receiving(e) => (sock[e] # "CLOSED" /\ pcMain[e] # "done")

\* StartChatLoop returned after a receive thread that had read frames ended
C13_Witness ==
    \E e \in E :
        /\ pcMain[e] = "done"
        /\ sock[e] = "CLOSED"
        /\ pcRecv[e] = "rDone"
        /\ Len(emitted[e]) >= 1

\* the plaintexts of the ciphertexts an endpoint wrote
RECURSIVE Plaintexts(_)
Plaintexts(w) ==
    IF w = <<>> THEN <<>>
    ELSE IF Head(w).t = "ct" THEN <<Head(w).k[3]>> \o Plaintexts(Tail(w))
    ELSE Plaintexts(Tail(w))

\* C14: the pass of the send loop that reads /exit writes nothing to the
\* connection, and no ciphertext written is the encryption of "/exit".
C14_SentinelNotSent ==
    /\ [][\A e \in E :
            (pcMain[e] = "send" /\ pcMain'[e] = "join")
                => (wrote'[e] = wrote[e] /\ stream'[Out(e)] = stream[Out(e)])]_vars
    /\ [](\A e \in E : \A i \in 1..Len(wrote[e]) :
            wrote[e][i].t = "ct" => wrote[e][i].k[3] # ExitCmd)

\* a send loop ended on /exit after it had sent the frame of one line
C14_Witness ==
    \E e \in E :
        /\ pcMain[e] = "join"
        /\ Len(consumed[e]) = 1
        /\ Len(wrote[e]) = Len(HandshakeWrites(e)) + 3
        /\ SendOK(e)

\* the segments of frames among the writes of an endpoint
IsFrameSegment(b) == b.t \in {"iv", "len", "ct"}
FrameWrites(w) == SelectSeq(w, IsFrameSegment)

C16_PrivateKeyNotWritten ==
    \A e \in E : \A i \in 1..Len(wrote[e]) :
        /\ wrote[e][i].t # "privpem"
        /\ wrote[e][i].t = "pem" => wrote[e][i] = PemBlob(e)

\* both endpoints have exported their key and sent frames
C16_Witness ==
    /\ \A e \in E : Len(wrote[e]) >= 1 /\ wrote[e][1].t = "pem"
    /\ Len(wrote["C"]) >= 5
    /\ Len(wrote["S"]) >= 4

\* the session key of the endpoint is established
SessionKeyEstablished(e) ==
    IF e = "C" THEN TRUE
    ELSE pcMain[e] \notin {"start", "accept", "recvPub", "recvKey"}

\* C17: an established session key never changes, and the only step that
\* writes aesKey is the Server's unwrap at the end of its handshake, which
\* overwrites the all-zero key.
C17_SessionKeyImmutable ==
    [][\A e \in E :
          /\ SessionKeyEstablished(e) => aesKey'[e] = aesKey[e]
          /\ aesKey'[e] # aesKey[e]
                => (e = "S" /\ pcMain[e] = "recvKey" /\ aesKey[e] = ZeroKey)]_vars

\* the Server unwrapped a key, and both endpoints then encrypted and decrypted frames
C17_Witness ==
    /\ rsaRet = AESKeyLen
    /\ aesKey["S"] = aesKey["C"]
    /\ \A e \in E : Len(emitted[e]) >= 1 /\ Len(consumed[e]) >= 1

\* C18: the Server writes no wrapped key, and whatever session key it holds
\* it took from a successful unwrap of a wrapped key the Client wrote for it;
\* the Client's key is one it generated, and the only unwrap is the Server's.
C18_KeyRoles ==
    /\ \A i \in 1..Len(wrote["S"]) : wrote["S"][i].t # "wrap"
    /\ aesKey["S"] # ZeroKey =>
          /\ rsaRet = AESKeyLen
          /\ Len(wrote["C"]) >= 2
          /\ wrote["C"][2] = WrapBlob(aesKey["S"], "S")
    /\ aesKey["C"] \in Keys
    /\ rsaRet # 0 => pcMain["S"] \notin {"start", "accept", "recvPub", "recvKey"}

\* the Server holds the key the Client generated and wrapped
C18_Witness ==
    /\ aesKey["S"] \in Keys
    /\ rsaRet = AESKeyLen
    /\ pcMain["S"] = "send"

(* ================= properties of the handshake's order ================== *)
\* C19: the Client writes nothing before it has imported the Server's public
\* key; its writes are its public key, then the wrapped session key, then
\* segments of frames.
C19_InitiatorOrder ==
    LET w == wrote["C"]
    IN  /\ w # <<>> => (peerPublicKey["C"] = "S" /\ keyBuf["C"] = Whole(PemBlob("S")))
        /\ \A i \in 1..Len(w) :
              CASE i = 1 -> w[i] = PemBlob("C")
                [] i = 2 -> w[i] = WrapBlob(aesKey["C"], "S")
                [] OTHER -> w[i].t \in {"iv", "len", "ct"}

\* the Client wrote its public key, the wrapped key and a frame
C19_Witness ==
    /\ Len(wrote["C"]) = 5
    /\ peerPublicKey["C"] = "S"

\* C20: the Server's first write is its public key, and it writes no frame
\* and decrypts no frame unless it has loaded the Client's public key and
\* unwrapped the session key.
C20_ResponderOrder ==
    /\ Len(wrote["S"]) >= 1 => wrote["S"][1] = PemBlob("S")
    /\ (Len(wrote["S"]) >= 2 \/ finalRet["S"] # -1)
          => (peerPublicKey["S"] = "C" /\ rsaRet = AESKeyLen)

(* ================== further properties of the handshake ================= *)
\* the connection stays open, nothing failed to start, and each read of a
\* public key returned exactly one write of the peer
ReliableIntact ==
    /\ ConnectionUp
    /\ \A e \in E : pcMain[e] \notin {"failed", "crashed"}
    /\ ~AcceptFailed
    /\ \A e \in E : keyBuf[e] \in {<<>>, Whole(PemBlob(Peer(e)))}

\* both roles have reached SessionKeyEstablished
BothEstablished ==
    /\ WaitForClientCompleted
    /\ SendAESKeyEncryptedCompleted
    /\ rsaRet = AESKeyLen
    /\ aesKey["S"] = aesKey["C"]

\* C21: on a connection that stays open and delivers each write intact as
\* one read, the handshake does not block: WaitForClient and
\* SendAESKeyEncrypted both return, with the session key established.
C21_HandshakeCompletes == <>(~ReliableIntact \/ BothEstablished)

\* the handshake completed on a reliable connection with intact reads
C21_Witness == ReliableIntact /\ BothEstablished

\* C22: SendAESKeyEncrypted called without a peer public key fails in
\* EncryptAESKeyWithPeer: nothing is written and no stored key changes.
C22_WrapWithoutPeerKey ==
    [][(/\ pcMain["C"] = "sendKey"
        /\ peerPublicKey["C"] = "null"
        /\ pcMain'["C"] # "sendKey")
           => (/\ pcMain'["C"] = "crashed"
               /\ wrote'["C"] = wrote["C"]
               /\ stream'["C2S"] = stream["C2S"]
               /\ aesKey' = aesKey
               /\ peerPublicKey' = peerPublicKey
               /\ rsaKeyPair' = rsaKeyPair)]_vars

\* SendAESKeyEncrypted was called without a peer key and failed
C22_Witness ==
    /\ pcMain["C"] = "crashed"
    /\ peerPublicKey["C"] = "null"
    /\ wrote["C"] = <<>>
    /\ stream["S2C"] = Whole(PemBlob("S"))

\* the bytes begin with the complete encoding of a public key
StartsWithKey(buf) ==
    \E o \in E : Size(buf) >= PemLen /\ Take(buf, PemLen) = Whole(PemBlob(o))

\* C23: when the bytes read for the peer's public key do not decode to a key
\* (an empty or a partial read included), the endpoint stops there: it loads no
\* key, writes nothing more and never starts its chat loop.
C23_InvalidKeyAborts ==
    /\ [][\A e \in E :
            (/\ pcMain[e] \in {"exchange", "recvPub"}
             /\ pcMain'[e] # pcMain[e]
             /\ ~StartsWithKey(keyBuf'[e]))
                => (/\ pcMain'[e] = "crashed"
                    /\ wrote'[e] = wrote[e]
                    /\ peerPublicKey'[e] = peerPublicKey[e])]_vars
    /\ [][\A e \in E :
            pcMain[e] = "crashed"
                => (/\ pcMain'[e] = "crashed"
                    /\ pcRecv'[e] = pcRecv[e]
                    /\ wrote'[e] = wrote[e])]_vars

\* an endpoint stopped on a partial read of the peer's public key
C23_Witness ==
    \E e \in E :
        /\ pcMain[e] = "crashed"
        /\ pcRecv[e] = "idle"
        /\ keyBuf[e] # <<>>
        /\ Size(keyBuf[e]) < PemLen

\* C24: an endpoint whose RSA key generation failed goes no further than its
\* constructor.
C24_KeyGenFailureStops ==
    \A e \in E : rsaKeyPair[e] = "unusable" => pcMain[e] \in {"new", "crashed"}

(* ======================= properties of the cipher ======================= *)
\* C25: when the receive loop decrypts, under the key that encrypted it, a
\* ciphertext AESEncrypt produced for a plaintext P, with the IV AESEncrypt
\* returned, AESDecrypt returns exactly P.
C25_CipherRoundTrip ==
    [][\A e \in E :
          (/\ pcRecv[e] = "rCipher"
           /\ pcRecv'[e] = "rIV"
           /\ IsWhole(cipher'[e], "ct")
           /\ IsWhole(iv[e], "iv")
           /\ cipher'[e][1].b.k[1] = aesKey[e]
           /\ AESEncrypt(cipher'[e][1].b.k[3], aesKey[e], iv[e][1].b.k).ct = cipher'[e][1].b)
              => (/\ finalRet'[e] = 1
                  /\ emitted'[e] = Append(emitted[e], cipher'[e][1].b.k[3]))]_vars

\* the ciphertext of the empty plaintext was decrypted to the empty plaintext
C25_Witness ==
    \E e \in E :
        /\ pcRecv[e] = "rIV"
        /\ IsWhole(cipher[e], "ct")
        /\ cipher[e][1].b.k[1] = aesKey[e]
        /\ cipher[e][1].b.k[3] = <<>>
        /\ IsWhole(iv[e], "iv")
        /\ iv[e][1].b.k = cipher[e][1].b.k[2]
        /\ finalRet[e] = 1
        /\ emitted[e] = <<Line16, <<>>>>

\* the IVs among the writes of an endpoint
IsIV(b) == b.t = "iv"
IVsWritten(e) == SelectSeq(wrote[e], IsIV)

\* C26: every frame an endpoint sends carries a 16-byte IV drawn for that
\* frame: no two frames it sent share an IV, and none has the IV of a frame
\* of the peer.
C26_FreshIV ==
    \A e \in E :
        LET ivs == IVsWritten(e)
        IN  /\ \A i \in 1..Len(ivs) : ivs[i].n = AES_BLOCK_SIZE
            /\ \A i, j \in 1..Len(ivs) : i # j => ivs[i] # ivs[j]
            /\ \A i \in 1..Len(ivs) : \A j \in 1..Len(IVsWritten(Peer(e))) :
                  ivs[i] # IVsWritten(Peer(e))[j]

\* an endpoint has sent two frames
C26_Witness == \E e \in E : Len(IVsWritten(e)) = 2 /\ SendOK(e)

(* ================= further properties of the chat session =============== *)
\* C27: once the console input is at end-of-file, the send loop makes no
\* further pass: it consumes nothing and writes no frame.
C27_EofEndsSendLoop ==
    [][\A e \in E :
          (cinEof[e] /\ pcMain[e] = "send")
              => (consumed'[e] = consumed[e] /\ wrote'[e] = wrote[e])]_vars

\* C28: every wrapped key the Client writes is 256 bytes long, and the step
\* in which the Server unwraps takes exactly 256 bytes off the stream.
C28_WrappedKeyLength ==
    /\ [](\A i \in 1..Len(wrote["C"]) :
            wrote["C"][i].t = "wrap" => wrote["C"][i].n = WrappedKeyLen)
    /\ [][(pcMain["S"] = "recvKey" /\ rsaRet' # 0)
            => Size(stream["C2S"]) - Size(stream'["C2S"]) = WrappedKeyLen]_vars

C30_WriteFailureStopsSend ==
    [][\A e \in E :
          (/\ pcMain[e] = "send"
           /\ ~SendOK(e)
           /\ consumed'[e] # consumed[e])
              => pcMain'[e] # "send"]_vars

(* ===================== properties of the cipher's results =============== *)
\* what AESDecrypt returns for the ciphertexts AESEncrypt makes, decrypted
\* under the key and the IV they were made with
SuccessfulOutcomes ==
    {AESDecrypt(r) : r \in UNION {EVPDecrypt(Whole(AESEncrypt(m, k, <<"C", 1>>).ct),
                                             Whole(AESEncrypt(m, k, <<"C", 1>>).iv), k) :
                                      m \in Msgs, k \in Keys}}

\* C31: what AESDecrypt returns when its final step fails differs from what
\* it returns for every successful decryption, that of the ciphertext of the
\* empty message included: a caller can tell the failure from its result.
C31_FailureDistinguishable ==
    [][\A e \in E :
          (/\ pcRecv[e] = "rCipher"
           /\ Len(emitted'[e]) > Len(emitted[e])
           /\ finalRet'[e] = 0)
              => emitted'[e][Len(emitted'[e])] \notin SuccessfulOutcomes]_vars

(* ================== properties of the two paths together ================ *)
\* this step is a pass of the send loop of e
SendStep(e) ==
    /\ pcMain[e] = "send"
    /\ (consumed'[e] # consumed[e] \/ pcMain'[e] = "join")

\* this step is a step of the receive loop of e that returns to the loop
RecvStep(e) ==
    /\ Receiving(e)
    /\ pcRecv'[e] \notin {pcRecv[e], "crashed"}

C33_LengthConversion ==
    /\ [](\A e \in E :
            /\ pcRecv[e] = "rCipher" => ClenAsInt(len4[e]) >= 0
            /\ pcRecv[e] # "crashed")
    /\ [][\A e \in E :
            (pcRecv[e] = "rCipher" /\ pcRecv'[e] # "rCipher")
               => \/ /\ pcRecv'[e] = "rIV"
                     /\ Size(cipher'[e]) = ClenAsInt(len4[e])
                  \/ /\ pcRecv'[e] = "rDone"
                     /\ outcome'[e] = "dataError"]_vars

(* ================= properties of the receive loop's reports ============= *)
\* the peer of e has closed its end of the connection
PeerClosed(e) ==
    /\ sock[e] # "INVALID"
    /\ sock[Peer(e)] = "CLOSED"

\* C34: the receive loop reports that the peer closed the connection only
\* when the peer did close it; a receive that fails for another reason while
\* the loop waits for the IV is not reported as a close.
C34_ClosedOnlyOnPeerClose ==
    [][\A e \in E :
          (outcome[e] # "closed" /\ outcome'[e] = "closed") => PeerClosed(e)]_vars

(* ====================== properties of the two exits ===================== *)
\* both operators have entered /exit
BothExited == \A e \in E : pcMain[e] = "join"

\* each endpoint is joining a receive thread that waits, on an open
\* connection with nothing to read, for bytes or a close from the other
MutualWait ==
    \A e \in E :
        /\ pcMain[e] = "join"
        /\ pcRecv[e] = "rIV"
        /\ Avail(e) = 0
        /\ ~shut[In(e)]

\* C35: when both operators have entered /exit, both StartChatLoop calls
\* eventually return: the endpoints are never each blocked joining a receive
\* thread that waits for the other side to close.
C35_BothExitsReturn ==
    /\ [](~MutualWait)
    /\ BothExited ~> (\A e \in E : pcMain[e] = "done")

(* =============== the one-message receive of the Server ================== *)
\* Server::ReceiveEncryptedMessage: read the 16-byte IV
ReceiveEncryptedMessageIV ==
    /\ UNCHANGED <<rsaKeyPair, cinEof, closeCalls>>
    /\ pcMain["S"] = "recvOne"
    /\ ExactReady("S", AES_BLOCK_SIZE)
    /\ iv' = [iv EXCEPT !["S"] = ReceiveDataBinary("S", AES_BLOCK_SIZE)]
    /\ stream' = [stream EXCEPT !["C2S"] = Drop(@, ExactTaken("S", AES_BLOCK_SIZE))]
    /\ pcMain' = [pcMain EXCEPT !["S"] = "recvOneBody"]
    /\ UNCHANGED <<pcRecv, sock, shut, wrote, peerPublicKey, aesKey, rsaRet,
                   keyBuf, len4, cipher, finalRet, chatLogs, ivCtr>>

\* Server::ReceiveEncryptedMessage: read 128 bytes, decrypt them under the IV
\* read and print what AESDecrypt returned
ReceiveEncryptedMessageBody ==
    /\ UNCHANGED <<rsaKeyPair, cinEof, closeCalls>>
    /\ pcMain["S"] = "recvOneBody"
    /\ ExactReady("S", OneShotBodySize)
    /\ cipher' = [cipher EXCEPT !["S"] = ReceiveDataBinary("S", OneShotBodySize)]
    /\ \E r \in EVPDecrypt(cipher'["S"], iv["S"], aesKey["S"]) :
          /\ finalRet' = [finalRet EXCEPT !["S"] = r.ret]
          /\ emitted' = [emitted EXCEPT !["S"] = Append(@, AESDecrypt(r))]
    /\ stream' = [stream EXCEPT !["C2S"] = Drop(@, ExactTaken("S", OneShotBodySize))]
    /\ pcMain' = [pcMain EXCEPT !["S"] = "recvOneDone"]
    /\ UNCHANGED <<pcRecv, sock, shut, wrote, peerPublicKey, aesKey, rsaRet,
                   keyBuf, iv, len4, outcome, consumed, ivCtr>>

\* the handshake is complete under key k, the Client is about to send and the
\* Server calls ReceiveEncryptedMessage
InitOneShot ==
    \E k \in Keys :
        /\ pcMain = [e \in E |-> IF e = "C" THEN "send" ELSE "recvOne"]
        /\ pcRecv = [e \in E |-> "idle"]
        /\ sock = [e \in E |-> "OPEN"]
        /\ stream = [d \in Dirs |-> <<>>]
        /\ shut = [d \in Dirs |-> FALSE]
        /\ peerPublicKey = [e \in E |-> Peer(e)]
        /\ aesKey = [e \in E |-> k]
        /\ rsaRet = AESKeyLen
        /\ keyBuf = [e \in E |-> Whole(PemBlob(Peer(e)))]
        /\ iv = [e \in E |-> <<>>]
        /\ len4 = [e \in E |-> <<>>]
        /\ cipher = [e \in E |-> <<>>]
        /\ finalRet = [e \in E |-> -1]
        /\ emitted = [e \in E |-> <<>>]
        /\ outcome = [e \in E |-> "none"]
        /\ consumed = [e \in E |-> <<>>]
        /\ wrote = [e \in E |-> IF e = "C"
                                THEN <<PemBlob("C"), WrapBlob(k, "S")>>
                                ELSE <<PemBlob("S")>>]
        /\ ivCtr = [e \in E |-> 0]
        /\ rsaKeyPair = [e \in E |-> "valid"]
        /\ cinEof = [e \in E |-> FALSE]
        /\ closeCalls = [h \in Handles |-> 0]

NextOneShot ==
    \/ SendEncryptedMessageLoop("C")
    \/ ReceiveEncryptedMessageIV
    \/ ReceiveEncryptedMessageBody
    \/ ConnectionLost

SpecOneShot == InitOneShot /\ [][NextOneShot]_vars

\* the first frame the Client wrote has arrived whole behind the IV read
FirstFrameArrived ==
    /\ pcMain["S"] = "recvOneBody"
    /\ Len(wrote["C"]) >= 5
    /\ iv["S"] = Whole(wrote["C"][3])
    /\ Avail("S") >= LenFieldSize + wrote["C"][5].n

\* C36: Server::ReceiveEncryptedMessage consumes exactly one frame as the
\* Client's SendEncryptedMessage writes it: once the frame has arrived the
\* call completes, it yields the plaintext of that frame, and it leaves the
\* stream at the start of the next frame.
C36_OneShotConsumesFrame ==
    /\ FirstFrameArrived => ENABLED ReceiveEncryptedMessageBody
    /\ (pcMain["S"] = "recvOneDone" /\ cipher["S"] # <<>>)
          => /\ emitted["S"] = <<consumed["C"][1]>>
             /\ stream["C2S"] = Flat(SubSeq(wrote["C"], 6, Len(wrote["C"])))

(* ========================= properties of teardown ====================== *)
\* C37: at teardown each socket handle is closed at most once.
C37_CloseAtMostOnce == \A h \in Handles : closeCalls[h] <= 1

(* ================== properties of what is written ====================== *)
\* the session key: the AES key the Client generated
SessionKey == aesKey["C"]

\* a blob is a public key, the session key wrapped for the peer, or a segment
\* of a frame whose ciphertext is under the session key
ConfidentialWrite(e, b) ==
    \/ b.t = "pem" /\ b.k = e
    \/ b.t = "wrap" /\ b.k = <<SessionKey, Peer(e)>>
    \/ b.t \in {"iv", "len"}
    \/ b.t = "ct" /\ b.k[1] = SessionKey

\* C38: everything an endpoint writes to the connection is a public-key
\* encoding, the wrapped session key, or part of a frame whose payload is
\* ciphertext under the session key; plaintext and the raw session key are
\* never written.
C38_OnlyProtectedBytesWritten ==
    \A e \in E : \A i \in 1..Len(wrote[e]) : ConfidentialWrite(e, wrote[e][i])

====
